---- MODULE Spec2Model ----
(***************************************************************************)
(* REMI backend (Demma22/ai_backend): the POST /ask pipeline of            *)
(* src/server.js and its near-duplicate src/unnamed/part_000.              *)
(*                                                                         *)
(* A request is a JavaScript async flow.  Between two awaits the handler   *)
(* runs to completion, so there is one action per resumption: the action   *)
(* settles the pending external call (verifier, record store, completion   *)
(* client), runs the code up to the next await and issues that call.       *)
(* JavaScript values are named by strings ("undefined", "null", "{}", ...) *)
(* so that truthiness, `||` and JSON serialisation can be computed.        *)
(***************************************************************************)
EXTENDS Integers, Sequences, FiniteSets, TLC

(* ------------------------------ bounds -------------------------------- *)

\* Number of POST /ask requests that may be in flight together.
NumReqs == 2
\* Number of writes other clients make to the record store during a run.
MaxWrites == 1
\* Number of clock ticks observed during a run.
MaxTicks == 1

(* ------------------------- program constants -------------------------- *)

\* ref.orderBy("timestamp", "desc").limit(5)
ChatLimit == 5

(* --------------------------- JavaScript values ------------------------ *)

\* !v : the values of this model that JavaScript treats as false.
Falsy(v) == v \in {"undefined", "null", "false", "0", "''"}

\* a || b
Or(a, b) == IF Falsy(a) THEN b ELSE a

\* null, as the value of `profile` (a document is a function from its field
\* names; no stored document has a field of this name).
JSNull == [jsnull |-> "null"]

\* JSON.stringify / res.json of an object: a key whose value is undefined
\* is left out.
JsonObject(o) == [k \in {f \in DOMAIN o : o[f] # "undefined"} |-> o[k]]

(* ------------------------------ requests ------------------------------ *)

Reqs == 1..NumReqs
Users == {"alice", "bob", "carol"}

\* The Authorization header: absent, or a string cut into the pieces that
\* matter to startsWith("Bearer ") and split("Bearer ").
NoHeader == [present |-> FALSE, atoms |-> <<>>]
Hdr(s) == [present |-> TRUE, atoms |-> s]
Headers ==
  { NoHeader,
    Hdr(<<>>),
    Hdr(<<"tokA">>),
    Hdr(<<"Basic ", "tokA">>),
    Hdr(<<"bearer ", "tokA">>),
    Hdr(<<"Bearer ">>),
    Hdr(<<"Bearer ", "bad">>),
    Hdr(<<"Bearer ", "tokA">>),
    Hdr(<<"Bearer ", "tokB">>),
    Hdr(<<"Bearer ", "tokC">>),
    Hdr(<<"Bearer ", "tokA", "Bearer ", "bad">>) }

Queries == {"undefined", "''", "q1"}
Timetables == {"undefined", "null", "''", "{}", "tt_body"}
Bodies == [query : Queries, timetable : Timetables]

\* Mutant: the check only asks for a header.
StartsWithBearer_anyHeader(h) ==
  h.present /\ Len(h.atoms) >= 1

\* authHeader?.startsWith("Bearer ")
StartsWithBearer(h) ==
  /\ h.present
  /\ Len(h.atoms) >= 1
  /\ h.atoms[1] = "Bearer "

\* authHeader.split("Bearer ")[1] : the text between the first occurrence
\* of "Bearer " and the next one (or the end of the header); undefined when
\* the header holds no "Bearer ".
SplitBearer1(h) ==
  LET seps == {i \in 1..Len(h.atoms) : h.atoms[i] = "Bearer "}
  IN  IF seps = {} THEN "undefined"
      ELSE LET i == CHOOSE x \in seps : \A y \in seps : x <= y
           IN  IF i + 1 <= Len(h.atoms) /\ h.atoms[i + 1] # "Bearer "
                 THEN h.atoms[i + 1] ELSE ""

(* --------------------------- identity verifier ------------------------ *)

\* The tokens the verifier accepts, and the uid each decodes to.
ValidTokens == {"tokA", "tokB", "tokC"}
Uid(token) ==
  CASE token = "tokA" -> "alice"
    [] token = "tokB" -> "bob"
    [] token = "tokC" -> "carol"

\* admin.auth().verifyIdToken(token), when the verifier can be reached or
\* not: the promise fulfils with the decoded uid or rejects.
Return(v) == [thrown |-> FALSE, value |-> v]
Throw(msg) == [thrown |-> TRUE, message |-> msg]
verifyIdToken(token, reachable) ==
  IF reachable /\ token \in ValidTokens
    THEN Return(Uid(token))
    ELSE Throw("auth/argument-error")

(* ------------------------------ record store -------------------------- *)

\* A stored timestamp field: a Firestore Timestamp, or a value of another
\* type written by a faulty client, or no field at all.  Times are counted
\* from the start of the run: stored times are in the past (negative).
Ts(kind, v) == [kind |-> kind, v |-> v]
ChatDoc(id, msg, isUser, ts) ==
  [id |-> id, message |-> msg, isUser |-> isUser, timestamp |-> ts]

AliceChats ==
  { ChatDoc(i, "hello", i % 2 = 0, Ts("timestamp", i - 7)) : i \in 1..6 }
BobChats ==
  { ChatDoc(1, "hi", TRUE, Ts("timestamp", -3)),
    ChatDoc(2, "gpa?", TRUE, Ts("number", -2)),
    ChatDoc(3, "none", FALSE, Ts("missing", 0)),
    ChatDoc(4, "ok", FALSE, Ts("timestamp", -5)),
    ChatDoc(5, "text", FALSE, Ts("string", 0)) }

InitialStore ==
  [u \in Users |->
     CASE u = "alice" ->
            [exists |-> TRUE,
             data |-> [nickname |-> "Ali", course |-> "CS",
                       current_semester |-> "2", total_semesters |-> "8",
                       email |-> "ali@example.org", role |-> "admin",
                       timetable |-> "tt_alice", exams |-> "exams_alice",
                       gpa_data |-> "gpa_alice", units |-> "units_alice"],
             chats |-> AliceChats]
       [] u = "bob" ->
            [exists |-> TRUE,
             data |-> [course |-> "Math", current_semester |-> "1",
                       timetable |-> "tt_bob", units |-> "0"],
             chats |-> BobChats]
       [] u = "carol" ->
            [exists |-> FALSE, data |-> <<>>, chats |-> {}]]

\* The gpa_data values another client may write for a user.
GpaValues(u) ==
  CASE u = "alice" -> {"gpa_alice", "gpa_alice_new"}
    [] u = "bob" -> {"gpa_bob", "gpa_bob_new"}
    [] u = "carol" -> {"gpa_carol", "gpa_carol_new"}

\* snap.data().f
Field(data, f) == IF f \in DOMAIN data THEN data[f] ELSE "undefined"

Put(data, f, v) ==
  [k \in DOMAIN data \cup {f} |-> IF k = f THEN v ELSE data[k]]

\* firestore.collection("users").doc(userId).get(): the promise fulfils
\* with a snapshot of the user's document or rejects (store unreachable).
DocGet(st, userId, ok) ==
  IF ok THEN Return([exists |-> st[userId].exists, data |-> st[userId].data])
        ELSE Throw("store unavailable")

\* Firestore's order of the values of one field: values of different types
\* are ordered by type (number < timestamp < string), values of one type by
\* value, equal values by document id.
TypeRank(ts) ==
  CASE ts.kind = "number" -> 1
    [] ts.kind = "timestamp" -> 2
    [] ts.kind = "string" -> 3

\* a comes before b in orderBy("timestamp", "desc")
Before(a, b) ==
  \/ TypeRank(a.timestamp) > TypeRank(b.timestamp)
  \/ /\ TypeRank(a.timestamp) = TypeRank(b.timestamp)
     /\ a.timestamp.v > b.timestamp.v
  \/ /\ TypeRank(a.timestamp) = TypeRank(b.timestamp)
     /\ a.timestamp.v = b.timestamp.v
     /\ a.id > b.id

RECURSIVE SortDesc(_)
SortDesc(S) ==
  IF S = {} THEN <<>>
  ELSE LET first == CHOOSE a \in S : \A b \in S \ {a} : Before(a, b)
       IN  <<first>> \o SortDesc(S \ {first})

Take(seq, n) == SubSeq(seq, 1, IF Len(seq) < n THEN Len(seq) ELSE n)

\* ref.orderBy("timestamp", "desc").limit(5).get(): a document without the
\* ordered field is not in the result of an orderBy query.
ChatQuery(st, userId, ok) ==
  IF ok
    THEN Return(Take(SortDesc({d \in st[userId].chats :
                                 d.timestamp.kind # "missing"}), ChatLimit))
    ELSE Throw("store unavailable")

(* ---------------------------- record accessors ------------------------ *)
\* Each accessor is applied to the settled result of its store call; its
\* own result is Return(v), or Throw(..) if the failure escaped its catch.

\* (part_000 returns null without a fetch for a falsy userId; the verifier
\* never yields one.)
getUserData(res) ==
  IF res.thrown THEN Return(JSNull)
  ELSE Return(IF res.value.exists THEN res.value.data ELSE JSNull)

getTimetable(res) ==
  IF res.thrown THEN Return("{}")
  ELSE Return(IF res.value.exists
                THEN Or(Field(res.value.data, "timetable"), "{}") ELSE "{}")

getExams(res) ==
  IF res.thrown THEN Return("[]")
  ELSE Return(IF res.value.exists
                THEN Or(Field(res.value.data, "exams"), "[]") ELSE "[]")

\* Mutant: no try/catch around the fetch.
getGPA_noCatch(res) ==
  IF res.thrown THEN res
  ELSE Return(IF res.value.exists
                THEN Or(Field(res.value.data, "gpa_data"), "{}") ELSE "{}")

getGPA(res) ==
  IF res.thrown THEN Return("{}")
  ELSE Return(IF res.value.exists
                THEN Or(Field(res.value.data, "gpa_data"), "{}") ELSE "{}")

getCourseUnits(res) ==
  IF res.thrown THEN Return("{}")
  ELSE Return(IF res.value.exists
                THEN Or(Field(res.value.data, "units"), "{}") ELSE "{}")

\* d.data().timestamp?.toDate?.() || new Date()
ToDate(ts, now) == IF ts.kind = "timestamp" THEN ts.v ELSE now

getChatHistory(res, now) ==
  IF res.thrown THEN Return(<<>>)
  ELSE Return([i \in 1..Len(res.value) |->
                 [message |-> res.value[i].message,
                  isUser |-> res.value[i].isUser,
                  timestamp |-> ToDate(res.value[i].timestamp, now)]])

(* ------------------------------ the handler --------------------------- *)

Whitelist == {"nickname", "course", "current_semester", "total_semesters"}

\* Mutant: the stored profile is passed on whole.
FormattedProfile_whole(profile) ==
  IF profile # JSNull THEN profile ELSE <<>>

\* formattedProfile
FormattedProfile(profile) ==
  IF profile # JSNull
    THEN [f \in Whitelist |-> Field(profile, f)]
    ELSE <<>>

\* completion.choices[0].message.content
FirstAnswer(completion) ==
  IF Len(completion.choices) = 0
    THEN Throw("Cannot read properties of undefined (reading 'message')")
  ELSE IF "message" \notin DOMAIN completion.choices[1]
    THEN Throw("Cannot read properties of undefined (reading 'content')")
  ELSE Return(Field(completion.choices[1].message, "content"))

\* What the completion client may settle with: a rejection, or a result
\* with no choice, a choice without message, a message without text, or
\* a message with one of two texts.
CompletionResults ==
  { Throw("502 upstream error"),
    Return([choices |-> <<>>]),
    Return([choices |-> <<[index |-> "0"]>>]),
    Return([choices |-> <<[index |-> "0", message |-> [content |-> "null"]]>>]),
    Return([choices |-> <<[index |-> "0", message |-> [content |-> "ans1"]]>>]),
    Return([choices |-> <<[index |-> "0", message |-> [content |-> "ans2"]]>>]) }

(* -------------------------------- state ------------------------------- *)

VARIABLES
  variant,  \* which of the two source files is running
  store,    \* the record store: per user, the document and the chat docs
  writes,   \* how many writes other clients have made to the store
  clock,    \* the current time (new Date())
  rq        \* per request: position, inputs, locals, response, history

vars == <<variant, store, writes, clock, rq>>

Variants == {"server.js", "part_000"}

NoResponse == [status |-> 0, body |-> <<>>]

\* One entry of a request's history: a call issued, a call settled, or the
\* response sent.
Ev(e, op, arg) == [e |-> e, op |-> op, arg |-> arg]

\* The awaited calls of one request, in no particular order.
Calls == {"verifyIdToken", "getUserData", "getTimetable", "getExams",
          "getGPA", "getCourseUnits", "getChatHistory"}

\* The environment of one request: the calls that the verifier or the store
\* may fail for it, and what the completion client may settle with.
Env(mayFail, completions) ==
  [mayFail |-> mayFail, completions |-> completions]

NewReq(h, b, env) ==
  [pc |-> "new", header |-> h, body |-> b, env |-> env,
   token |-> "", userId |-> "undefined",
   profile |-> JSNull, userTimetable |-> "undefined",
   exams |-> "undefined", gpa |-> "undefined",
   courseUnits |-> "undefined", lastChats |-> <<>>,
   completionReq |-> <<>>, completion |-> Throw("pending"),
   response |-> NoResponse,
   log |-> <<>>, failed |-> {}, seen |-> {}]

IdleReq ==
  [NewReq(NoHeader, [query |-> "undefined", timetable |-> "undefined"],
          Env({}, {}))
     EXCEPT !.pc = "idle"]

\* res.status(status).json(body)
Respond(q, status, body) ==
  [q EXCEPT !.pc = "done",
            !.response = [status |-> status, body |-> body],
            !.log = Append(@, Ev("respond", "res", "sent"))]

\* the handler's catch (err): res.status(500).json({error, details})
Fail(q, message) ==
  Respond(q, 500, [error |-> "AI processing failed", details |-> message])

\* Mutant: the user identifier is kept in one module-level variable, set by
\* whichever request authenticated last (here: the highest one bound).
BoundUserId_shared(r) ==
  LET bound == {x \in Reqs : rq[x].userId # "undefined"}
  IN  rq[CHOOSE x \in bound : \A y \in bound : x >= y].userId

\* The user identifier the handler of request r works with:
\* req.userId, set by the middleware for this request.
BoundUserId(r) == rq[r].userId

\* A call is issued and the flow waits at the await.
Issue(q, op, arg) ==
  [q EXCEPT !.pc = op, !.log = Append(@, Ev("issue", op, arg))]

\* The awaited store call settles (history only).
Settled(q, op, ok) ==
  [q EXCEPT !.log = Append(@, Ev("settle", op, IF ok THEN "ok" ELSE "error")),
            !.failed = IF ok THEN @ ELSE @ \cup {op},
            !.seen = @ \cup {writes}]

\* How the call `op` of request q may settle: TRUE is success.
Outcomes(q, op) == IF op \in q.env.mayFail THEN BOOLEAN ELSE {TRUE}

\* Mutant: the stored timetable is always fetched and used.
UsesBodyTimetable_never(timetable) == FALSE

\* `timetable || (await getTimetable(userId))`: the body's timetable is
\* taken, and no fetch made, when it is truthy.
UsesBodyTimetable(timetable) == ~Falsy(timetable)

\* Mutant: only a missing query is refused (query === undefined).
QueryMissing_undefinedOnly(query) == query = "undefined"

\* if (!query)
QueryMissing(query) == Falsy(query)

\* Mutant: the calls for the exams and the GPA are made in the other order.
NextCall_swapped(op) ==
  CASE op = "verifyIdToken" -> "getUserData"
    [] op = "getUserData" -> "getTimetable"
    [] op = "getTimetable" -> "getGPA"
    [] op = "getGPA" -> "getExams"
    [] op = "getExams" -> "getCourseUnits"
    [] op = "getCourseUnits" -> "getChatHistory"
    [] op = "getChatHistory" -> "completion"

\* The order of the awaited calls in the handler: the call made once `op`
\* has settled.
NextCall(op) ==
  CASE op = "verifyIdToken" -> "getUserData"
    [] op = "getUserData" -> "getTimetable"
    [] op = "getTimetable" -> "getExams"
    [] op = "getExams" -> "getGPA"
    [] op = "getGPA" -> "getCourseUnits"
    [] op = "getCourseUnits" -> "getChatHistory"
    [] op = "getChatHistory" -> "completion"

\* return res.status(400).json({error: ...})
QueryError(v) ==
  IF v = "server.js" THEN "Query is required" ELSE "query is required"

(* ------------------------------- actions ------------------------------ *)

\* authenticateFirebase, up to its await.
Receive(r) ==
  /\ rq[r].pc = "new"
  /\ LET q == rq[r]
         token == SplitBearer1(q.header)
     IN  rq' = [rq EXCEPT ![r] =
           IF ~StartsWithBearer(q.header)
             THEN Respond(q, 401, [error |-> "Unauthorized. No token provided."])
             ELSE Issue([q EXCEPT !.token = token], "verifyIdToken", token)]
  /\ UNCHANGED <<variant, store, writes, clock>>

\* verifyIdToken settles: the middleware binds req.userId and calls next();
\* the handler checks the query and calls getUserData.
VerifySettle(r) ==
  /\ rq[r].pc = "verifyIdToken"
  /\ \E reachable \in Outcomes(rq[r], "verifyIdToken") :
       LET q == rq[r]
           ret == verifyIdToken(q.token, reachable)
           q1 == [q EXCEPT !.log = Append(@, Ev("settle", "verifyIdToken",
                                      IF ret.thrown THEN "error" ELSE "ok"))]
           q2 == [q1 EXCEPT !.userId = ret.value]
       IN  rq' = [rq EXCEPT ![r] =
             IF ret.thrown
               THEN Respond(q1, 401, [error |-> "Invalid or expired token."])
             ELSE IF QueryMissing(q.body.query)
               THEN Respond(q2, 400, [error |-> QueryError(variant)])
             ELSE Issue(q2, NextCall("verifyIdToken"), ret.value)]
  /\ UNCHANGED <<variant, store, writes, clock>>

\* getUserData settles; `timetable || (await getTimetable(userId))`.
GetUserDataSettle(r) ==
  /\ rq[r].pc = "getUserData"
  /\ \E ok \in Outcomes(rq[r], "getUserData") :
       LET q == Settled(rq[r], "getUserData", ok)
           ret == getUserData(DocGet(store, BoundUserId(r), ok))
           q1 == [q EXCEPT !.profile = ret.value]
       IN  rq' = [rq EXCEPT ![r] =
             IF ret.thrown THEN Fail(q, ret.message)
             ELSE IF UsesBodyTimetable(q.body.timetable)
               THEN Issue([q1 EXCEPT !.userTimetable = q.body.timetable],
                          NextCall(NextCall("getUserData")), BoundUserId(r))
             ELSE Issue(q1, NextCall("getUserData"), BoundUserId(r))]
  /\ UNCHANGED <<variant, store, writes, clock>>

GetTimetableSettle(r) ==
  /\ rq[r].pc = "getTimetable"
  /\ \E ok \in Outcomes(rq[r], "getTimetable") :
       LET q == Settled(rq[r], "getTimetable", ok)
           ret == getTimetable(DocGet(store, BoundUserId(r), ok))
       IN  rq' = [rq EXCEPT ![r] =
             IF ret.thrown THEN Fail(q, ret.message)
             ELSE Issue([q EXCEPT !.userTimetable = ret.value],
                        NextCall("getTimetable"), BoundUserId(r))]
  /\ UNCHANGED <<variant, store, writes, clock>>

GetExamsSettle(r) ==
  /\ rq[r].pc = "getExams"
  /\ \E ok \in Outcomes(rq[r], "getExams") :
       LET q == Settled(rq[r], "getExams", ok)
           ret == getExams(DocGet(store, BoundUserId(r), ok))
       IN  rq' = [rq EXCEPT ![r] =
             IF ret.thrown THEN Fail(q, ret.message)
             ELSE Issue([q EXCEPT !.exams = ret.value],
                        NextCall("getExams"), BoundUserId(r))]
  /\ UNCHANGED <<variant, store, writes, clock>>

GetGPASettle(r) ==
  /\ rq[r].pc = "getGPA"
  /\ \E ok \in Outcomes(rq[r], "getGPA") :
       LET q == Settled(rq[r], "getGPA", ok)
           ret == getGPA(DocGet(store, BoundUserId(r), ok))
       IN  rq' = [rq EXCEPT ![r] =
             IF ret.thrown THEN Fail(q, ret.message)
             ELSE Issue([q EXCEPT !.gpa = ret.value],
                        NextCall("getGPA"), BoundUserId(r))]
  /\ UNCHANGED <<variant, store, writes, clock>>

GetCourseUnitsSettle(r) ==
  /\ rq[r].pc = "getCourseUnits"
  /\ \E ok \in Outcomes(rq[r], "getCourseUnits") :
       LET q == Settled(rq[r], "getCourseUnits", ok)
           ret == getCourseUnits(DocGet(store, BoundUserId(r), ok))
       IN  rq' = [rq EXCEPT ![r] =
             IF ret.thrown THEN Fail(q, ret.message)
             ELSE Issue([q EXCEPT !.courseUnits = ret.value],
                        NextCall("getCourseUnits"), BoundUserId(r))]
  /\ UNCHANGED <<variant, store, writes, clock>>

\* The system prompt's data, and the two messages sent to the client.
CompletionRequest(q, v, now) ==
  [system |-> [profile |-> JsonObject(FormattedProfile(q.profile)),
               timetable |-> q.userTimetable,
               exams |-> q.exams,
               gpa |-> q.gpa,
               courseUnits |-> q.courseUnits,
               lastChats |-> q.lastChats,
               date |-> IF v = "server.js" THEN <<now>> ELSE <<>>],
   user |-> q.body.query]

\* getChatHistory settles; the prompt is built and the completion call made.
GetChatHistorySettle(r) ==
  /\ rq[r].pc = "getChatHistory"
  /\ \E ok \in Outcomes(rq[r], "getChatHistory") :
       LET q == Settled(rq[r], "getChatHistory", ok)
           ret == getChatHistory(ChatQuery(store, BoundUserId(r), ok), clock)
           q1 == [q EXCEPT !.lastChats = ret.value]
       IN  rq' = [rq EXCEPT ![r] =
             IF ret.thrown THEN Fail(q, ret.message)
             ELSE Issue([q1 EXCEPT !.completionReq =
                                      CompletionRequest(q1, variant, clock)],
                        NextCall("getChatHistory"), q1.body.query)]
  /\ UNCHANGED <<variant, store, writes, clock>>

\* Mutant: the answer is sent in the place of the exams.
OkBody_examsFromAnswer(q, answer) ==
  JsonObject([answer |-> answer, timetable |-> q.userTimetable,
              exams |-> answer, gpa |-> q.gpa,
              courseUnits |-> q.courseUnits])
    @@ [profile |-> JsonObject(FormattedProfile(q.profile))]

\* res.json({answer, profile, timetable, exams, gpa, courseUnits})
OkBody(q, answer) ==
  JsonObject([answer |-> answer, timetable |-> q.userTimetable,
              exams |-> q.exams, gpa |-> q.gpa,
              courseUnits |-> q.courseUnits])
    @@ [profile |-> JsonObject(FormattedProfile(q.profile))]

\* Mutant: completion.choices?.[0]?.message?.content, which does not throw.
AfterCompletion_optionalChain(q, res) ==
  IF res.thrown THEN Fail(q, res.message)
  ELSE LET answer == FirstAnswer(res.value)
       IN  Respond(q, 200, OkBody(q, IF answer.thrown THEN "undefined"
                                                      ELSE answer.value))

\* What the handler does with the settled completion call.
AfterCompletion(q, res) ==
  IF res.thrown THEN Fail(q, res.message)
  ELSE LET answer == FirstAnswer(res.value)
       IN  IF answer.thrown THEN Fail(q, answer.message)
           ELSE Respond(q, 200, OkBody(q, answer.value))

CompletionSettle(r) ==
  /\ rq[r].pc = "completion"
  /\ \E res \in rq[r].env.completions :
       LET q == [rq[r] EXCEPT !.completion = res,
                              !.log = Append(@, Ev("settle", "completion",
                                   IF res.thrown THEN "error" ELSE "ok"))]
       IN  rq' = [rq EXCEPT ![r] = AfterCompletion(q, res)]
  /\ UNCHANGED <<variant, store, writes, clock>>

\* Another client of the store rewrites a user's gpa_data.
StoreWrite ==
  /\ writes < MaxWrites
  /\ \E u \in {x \in Users : store[x].exists} :
     \E v \in GpaValues(u) \ {Field(store[u].data, "gpa_data")} :
       store' = [store EXCEPT ![u].data = Put(@, "gpa_data", v)]
  /\ writes' = writes + 1
  /\ UNCHANGED <<variant, clock, rq>>

\* Time passes.
Tick ==
  /\ clock < MaxTicks
  /\ clock' = clock + 1
  /\ UNCHANGED <<variant, store, writes, rq>>

Step(r) ==
  \/ Receive(r)
  \/ VerifySettle(r)
  \/ GetUserDataSettle(r)
  \/ GetTimetableSettle(r)
  \/ GetExamsSettle(r)
  \/ GetGPASettle(r)
  \/ GetCourseUnitsSettle(r)
  \/ GetChatHistorySettle(r)
  \/ CompletionSettle(r)

Next == (\E r \in Reqs : Step(r)) \/ Tick

\* One request, with any header and any body.
Init ==
  /\ variant \in Variants
  /\ store = InitialStore
  /\ writes = 0
  /\ clock = 0
  /\ \E h \in Headers, b \in Bodies :
       rq = [r \in Reqs |-> IF r = 1 THEN NewReq(h, b, Env(Calls, CompletionResults))
                               ELSE IdleReq]

Spec == Init /\ [][Next]_vars

\* Several authenticated requests in flight together, each either alice's
\* or bob's; of the store calls only the GPA fetch may fail, and the
\* completion client answers with one of two texts.
ConcEnv ==
  Env({"getGPA"}, {c \in CompletionResults :
                     ~c.thrown /\ FirstAnswer(c.value) \in
                                    {Return("ans1"), Return("ans2")}})
ConcReqs ==
  { NewReq(Hdr(<<"Bearer ", "tokA">>),
           [query |-> "q1", timetable |-> "undefined"], ConcEnv),
    NewReq(Hdr(<<"Bearer ", "tokB">>),
           [query |-> "q2", timetable |-> "tt_body"], ConcEnv) }
InitConc ==
  /\ variant \in Variants
  /\ store = InitialStore
  /\ writes = 0
  /\ clock = 0
  /\ rq \in [Reqs -> ConcReqs]

SpecConc == InitConc /\ [][Next]_vars

\* The same request sent twice (requests 1 and 2), while other clients may
\* write to the store; the GPA fetch may fail.
RepeatEnv ==
  Env({"getGPA"}, ConcEnv.completions)
RepeatReqs ==
  { NewReq(Hdr(<<"Bearer ", "tokA">>),
           [query |-> "q1", timetable |-> "undefined"], RepeatEnv),
    NewReq(Hdr(<<"Bearer ", "tokB">>),
           [query |-> "q2", timetable |-> "tt_body"], RepeatEnv) }
InitRepeat ==
  /\ variant \in Variants
  /\ store = InitialStore
  /\ writes = 0
  /\ clock = 0
  /\ \E q \in RepeatReqs :
       rq = [r \in Reqs |-> IF r <= 2 THEN q ELSE IdleReq]

NextRepeat == (\E r \in Reqs : Step(r)) \/ StoreWrite

SpecRepeat == InitRepeat /\ [][NextRepeat]_vars

(* ------------------------- reading a request's history ---------------- *)

StoreCalls == Calls \ {"verifyIdToken"}

Done(r) == rq[r].pc = "done"
Status(r) == rq[r].response.status
ErrorText(r) == rq[r].response.body.error

\* The call `op` was issued / has settled / has settled with `arg`.
Issued(r, op) ==
  \E i \in DOMAIN rq[r].log :
     rq[r].log[i].e = "issue" /\ rq[r].log[i].op = op
SettledOp(r, op) ==
  \E i \in DOMAIN rq[r].log :
     rq[r].log[i].e = "settle" /\ rq[r].log[i].op = op
SettledWith(r, op, arg) ==
  \E i \in DOMAIN rq[r].log :
     rq[r].log[i] = Ev("settle", op, arg)
NoDownstream(r) ==
  \A op \in StoreCalls \cup {"completion"} : ~Issued(r, op)

\* The header has the form `Bearer <token>`.
BearerForm(h) ==
  h.present /\ h.atoms # <<>> /\ Head(h.atoms) = "Bearer "

(* -------------------------------- claims ------------------------------ *)

\* C1: a request whose Authorization header is absent or not of the form
\* `Bearer <token>` is answered 401 "Unauthorized. No token provided." and
\* the verifier is never called for it; a request whose token the verifier
\* rejects is answered 401 "Invalid or expired token."; in both cases no
\* record-store fetch and no completion call is made for the request.
C1_Unauthorized ==
  \A r \in Reqs :
    /\ (rq[r].pc \notin {"idle", "new"} /\ ~BearerForm(rq[r].header)) =>
          /\ Done(r) /\ Status(r) = 401
          /\ ErrorText(r) = "Unauthorized. No token provided."
          /\ ~Issued(r, "verifyIdToken")
          /\ NoDownstream(r)
    /\ SettledWith(r, "verifyIdToken", "error") =>
          /\ Done(r) /\ Status(r) = 401
          /\ ErrorText(r) = "Invalid or expired token."
          /\ NoDownstream(r)

\* C1 witness: a well-formed header whose token the verifier rejected.
C1_Witness ==
  \E r \in Reqs :
    /\ BearerForm(rq[r].header)
    /\ SettledWith(r, "verifyIdToken", "error")
    /\ Status(r) = 401

\* C2: an authenticated request whose body has no query, or the empty
\* string as query, is answered 400 with a "query is required" error, and
\* no record-store fetch and no completion call is made for it.
C2_QueryRequired ==
  \A r \in Reqs :
    (/\ SettledWith(r, "verifyIdToken", "ok")
     /\ rq[r].body.query \in {"undefined", "''"}) =>
       /\ Done(r) /\ Status(r) = 400
       /\ ErrorText(r) \in {"Query is required", "query is required"}
       /\ NoDownstream(r)

\* C2 witness: an authenticated request with the empty query, answered.
C2_Witness ==
  \E r \in Reqs :
    /\ SettledWith(r, "verifyIdToken", "ok")
    /\ rq[r].body.query = "''"
    /\ Status(r) = 400

\* The timetable embedded in the prompt of request r.
PromptTimetable(r) == rq[r].completionReq.system.timetable

\* What is stored as the timetable of the user of request r.
StoredTimetable(r) == Field(store[rq[r].userId].data, "timetable")

\* C3 as stated: whenever the body supplies a timetable, whatever its
\* value, that value is the timetable of the prompt and of the 200 response.
C3_AnySuppliedValue ==
  \A r \in Reqs :
    rq[r].body.timetable # "undefined" =>
      /\ Issued(r, "completion") => PromptTimetable(r) = rq[r].body.timetable
      /\ Status(r) = 200 =>
           rq[r].response.body.timetable = rq[r].body.timetable

\* C3 amended: a supplied timetable that is truthy (any object or array,
\* also an empty one) is the timetable of the prompt and of the 200
\* response, verbatim and without a fetch of the stored one; the timetable
\* is fetched from the store (and is the stored value or {}) exactly when
\* the body supplies none or a falsy one (null, "").
C3_TruthyOverride ==
  \A r \in Reqs :
    /\ Issued(r, "completion") =>
         IF ~Falsy(rq[r].body.timetable)
           THEN /\ PromptTimetable(r) = rq[r].body.timetable
                /\ ~Issued(r, "getTimetable")
           ELSE /\ SettledOp(r, "getTimetable")
                /\ PromptTimetable(r) \in {StoredTimetable(r), "{}"}
    /\ Status(r) = 200 =>
         rq[r].response.body.timetable = PromptTimetable(r)

\* C3 witness: a 200 response that carries the body's timetable although
\* the user has another one stored.
C3_Witness ==
  \E r \in Reqs :
    /\ Status(r) = 200
    /\ rq[r].body.timetable = "tt_body"
    /\ rq[r].response.body.timetable = "tt_body"
    /\ StoredTimetable(r) = "tt_alice"

\* The settled completion result has no first choice to read a message of.
NoUsableChoice(completion) ==
  \/ completion.choices = <<>>
  \/ "message" \notin DOMAIN completion.choices[1]

\* The local that holds the result of accessor `op`, and its empty default.
LocalOf(r, op) ==
  CASE op = "getUserData" -> rq[r].profile
    [] op = "getTimetable" -> rq[r].userTimetable
    [] op = "getExams" -> rq[r].exams
    [] op = "getGPA" -> rq[r].gpa
    [] op = "getCourseUnits" -> rq[r].courseUnits
    [] op = "getChatHistory" -> rq[r].lastChats
DefaultOf(op) ==
  CASE op = "getUserData" -> JSNull
    [] op \in {"getTimetable", "getGPA", "getCourseUnits"} -> "{}"
    [] op = "getExams" -> "[]"
    [] op = "getChatHistory" -> <<>>

\* C4: an accessor whose fetch failed, or whose user has no stored
\* document, returned its category's empty default and did not raise: a
\* 500 response is only ever sent because of the settled completion call.
C4_AccessorDefaults ==
  \A r \in Reqs :
    /\ \A op \in StoreCalls :
         (/\ SettledOp(r, op)
          /\ \/ op \in rq[r].failed
             \/ ~store[rq[r].userId].exists) =>
            LocalOf(r, op) = DefaultOf(op)
    /\ Status(r) = 500 =>
         /\ SettledOp(r, "completion")
         /\ rq[r].completion.thrown \/ NoUsableChoice(rq[r].completion.value)

\* C4 witness: every fetch of the request failed and it was answered 200.
C4_Witness ==
  \E r \in Reqs :
    /\ rq[r].failed = StoreCalls
    /\ Status(r) = 200

\* The stored profile document that request r read: none when the user has
\* no document or the fetch failed.
ReadProfile(r) ==
  IF "getUserData" \in rq[r].failed \/ ~store[rq[r].userId].exists
    THEN <<>>
    ELSE store[rq[r].userId].data

\* C5 as stated: the profile of every 200 response has exactly the four
\* whitelisted fields, with the stored values.
C5_ExactlyFourFields ==
  \A r \in Reqs :
    Status(r) = 200 =>
      /\ DOMAIN rq[r].response.body.profile = Whitelist
      /\ \A f \in Whitelist :
           rq[r].response.body.profile[f] = ReadProfile(r)[f]

\* C5 amended: the profile of every 200 response has no field outside the
\* four whitelisted ones; it has each whitelisted field that the stored
\* profile defines, with the stored value, and lacks those the stored
\* profile lacks; it is {} when there is no stored profile or its fetch
\* failed.
C5_OnlyWhitelisted ==
  \A r \in Reqs :
    Status(r) = 200 =>
      /\ DOMAIN rq[r].response.body.profile \subseteq Whitelist
      /\ rq[r].response.body.profile =
           [f \in Whitelist \cap DOMAIN ReadProfile(r) |-> ReadProfile(r)[f]]

\* C5 witness: a 200 response for a user whose stored profile has fields
\* beyond the whitelist.
C5_Witness ==
  \E r \in Reqs :
    /\ Status(r) = 200
    /\ "email" \in DOMAIN ReadProfile(r)
    /\ DOMAIN rq[r].response.body.profile = Whitelist

\* C6 as stated: the sequence getChatHistory returned has at most 5 entries
\* and is ordered newest-first by the returned timestamps.
C6_NewestFirst ==
  \A r \in Reqs :
    /\ Len(rq[r].lastChats) <= ChatLimit
    /\ \A i, j \in DOMAIN rq[r].lastChats :
         i < j => rq[r].lastChats[i].timestamp >= rq[r].lastChats[j].timestamp

CompletionCalls(r) ==
  {i \in DOMAIN rq[r].log :
     rq[r].log[i].e = "issue" /\ rq[r].log[i].op = "completion"}

\* C7: when the completion call fails, or its result has no usable first
\* choice, the response is 500 {error: "AI processing failed", details: the
\* error's message}; the completion client is called at most once.
C7_CompletionFailure ==
  \A r \in Reqs :
    /\ Cardinality(CompletionCalls(r)) <= 1
    /\ SettledOp(r, "completion") =>
         LET c == rq[r].completion
         IN  IF c.thrown
               THEN /\ Status(r) = 500
                    /\ ErrorText(r) = "AI processing failed"
                    /\ rq[r].response.body.details = c.message
             ELSE NoUsableChoice(c.value) =>
                    /\ Status(r) = 500
                    /\ ErrorText(r) = "AI processing failed"
                    /\ rq[r].response.body.details \in
                         {"Cannot read properties of undefined (reading 'message')",
                          "Cannot read properties of undefined (reading 'content')"}

\* C7 witness: the completion call resolved with no choice and the request
\* was answered 500.
C7_Witness ==
  \E r \in Reqs :
    /\ SettledOp(r, "completion")
    /\ ~rq[r].completion.thrown
    /\ rq[r].completion.value.choices = <<>>
    /\ Status(r) = 500

\* The user the verifier names for the token of request r's own header.
OwnUid(r) == Uid(rq[r].header.atoms[2])

\* What the store holds for user u: the document and the chat messages.
OwnDoc(u) == IF store[u].exists THEN store[u].data ELSE <<>>
OwnMessages(u) == {d.message : d \in store[u].chats}

\* The grounding data g (profile, timetable, exams, gpa, courseUnits) is
\* made of the body of request r and of what the store holds for user u.
Belongs(g, r, u) ==
  /\ g.profile \in
       {<<>>, [f \in Whitelist \cap DOMAIN OwnDoc(u) |-> OwnDoc(u)[f]]}
  /\ g.timetable \in
       {rq[r].body.timetable, Field(OwnDoc(u), "timetable"), "{}"}
  /\ g.exams \in {Field(OwnDoc(u), "exams"), "[]"}
  /\ g.gpa \in {Field(OwnDoc(u), "gpa_data"), "{}"}
  /\ g.courseUnits \in {Field(OwnDoc(u), "units"), "{}"}

\* C8: with several requests in flight, every store fetch of a request is
\* made for the user the verifier named for that request's own token; the
\* prompt carries the request's own query and data of that user only, and
\* so does the 200 response.
C8_Isolation ==
  \A r \in Reqs :
    /\ \A i \in DOMAIN rq[r].log :
         (rq[r].log[i].e = "issue" /\ rq[r].log[i].op \in StoreCalls) =>
            rq[r].log[i].arg = OwnUid(r)
    /\ rq[r].userId \in {"undefined", OwnUid(r)}
    /\ Issued(r, "completion") =>
         /\ rq[r].completionReq.user = rq[r].body.query
         /\ Belongs(rq[r].completionReq.system, r, OwnUid(r))
         /\ \A i \in DOMAIN rq[r].completionReq.system.lastChats :
              rq[r].completionReq.system.lastChats[i].message
                \in OwnMessages(OwnUid(r))
    /\ Status(r) = 200 => Belongs(rq[r].response.body, r, OwnUid(r))

\* C8 witness: two requests of different users are in flight together, one
\* waiting for the completion client with its own user's data in the
\* prompt and one waiting for a store fetch.
C8_Witness ==
  \E a, b \in Reqs :
    /\ OwnUid(a) # OwnUid(b)
    /\ rq[a].pc = "completion"
    /\ rq[b].pc = "getGPA"
    /\ rq[a].completionReq.system.exams = "exams_alice"

GroundingFields == {"profile", "timetable", "exams", "gpa", "courseUnits"}
Grounding(r) == [f \in GroundingFields |-> rq[r].response.body[f]]

\* Requests a and b are the same POST /ask, both answered 200, and every
\* fetch of both read the store between the same two writes.
RepeatedUnchanged(a, b) ==
  /\ Status(a) = 200 /\ Status(b) = 200
  /\ rq[a].header = rq[b].header
  /\ rq[a].body = rq[b].body
  /\ Cardinality(rq[a].seen \cup rq[b].seen) = 1

IsCall(ev) == ev.e # "respond"
CallTrace(r) ==
  LET calls == SelectSeq(rq[r].log, IsCall)
  IN  [i \in DOMAIN calls |-> <<calls[i].e, calls[i].op>>]

\* The strictly ordered pipeline: each call is issued when the one before
\* has settled; the timetable fetch is part of it or not.
Pipeline(withTimetable) ==
  LET ops == <<"verifyIdToken", "getUserData">>
               \o (IF withTimetable THEN <<"getTimetable">> ELSE <<>>)
               \o <<"getExams", "getGPA", "getCourseUnits",
                    "getChatHistory", "completion">>
  IN  [k \in 1..(2 * Len(ops)) |->
         IF k % 2 = 1 THEN <<"issue", ops[(k + 1) \div 2]>>
                      ELSE <<"settle", ops[k \div 2]>>]

IsPrefix(s, t) ==
  Len(s) <= Len(t) /\ \A i \in DOMAIN s : s[i] = t[i]

\* The calls of request r follow the pipeline; a response is the last
\* event of the request, 400 comes after the verification has settled and
\* 200 after the whole pipeline.
Ordered(r, withTimetable) ==
  /\ IsPrefix(CallTrace(r), Pipeline(withTimetable))
  /\ \A i \in DOMAIN rq[r].log :
       rq[r].log[i].e = "respond" => i = Len(rq[r].log)
  /\ Status(r) = 400 => SettledOp(r, "verifyIdToken")
  /\ Status(r) = 200 => CallTrace(r) = Pipeline(withTimetable)

\* C10 as stated: the steps of a request are strictly ordered, and the
\* timetable fetch is issued only when the body supplies no timetable.
C10_OrderedFetchIfAbsent ==
  \A r \in Reqs : Ordered(r, rq[r].body.timetable = "undefined")

\* C10 amended: the steps of a request are strictly ordered (verification,
\* query check, profile, timetable, exams, GPA, course units, chat history,
\* completion, 200 response, each after the one before has settled); the
\* timetable fetch is issued exactly when the body supplies no timetable
\* or a falsy one (null, "").
C10_OrderedFetchIfFalsy ==
  \A r \in Reqs : Ordered(r, Falsy(rq[r].body.timetable))

\* C10 witness: a request answered 200 after the whole pipeline, the
\* timetable fetch included.
C10_Witness ==
  \E r \in Reqs :
    /\ Status(r) = 200
    /\ SettledOp(r, "getTimetable")
    /\ CallTrace(r) = Pipeline(TRUE)

====
